---- MODULE Spec2Model ----
(***************************************************************************)
(* A model of beancount_tx_cleanup.cleaner: the payee clean-up engine      *)
(* TxnPayeeCleanup, its actions (Payee, Tag, Meta), the Extractor objects  *)
(* with their last_used dates, the usage report extractorsUsage, and the   *)
(* Tx helper that builds transactions.                                     *)
(*                                                                         *)
(* Representation.                                                         *)
(*  - A Python str is a sequence of one-character strings; comparisons go  *)
(*    through the code points (Code).                                      *)
(*  - A datetime.date is its proleptic ordinal (date.toordinal()).         *)
(*  - A dict is the sequence of its <<key, value>> items in insertion      *)
(*    order.  Dicts are mutable objects: a transaction holds a reference   *)
(*    (an index into heap), so that aliasing between the caller's          *)
(*    transaction, the engine's local txn and helpers.EMPTY_META is kept.  *)
(*  - A compiled pattern is a fixed-length sequence of character classes   *)
(*    with optional ^ and $ anchors and capture groups given as position   *)
(*    ranges: a subset of Python's regular expressions whose search, sub   *)
(*    and expand are computed exactly.                                     *)
(*  - A raised exception is a result record with ok = FALSE.               *)
(***************************************************************************)
EXTENDS Integers, Sequences, FiniteSets, TLC

\* longest raw payee handed to Tx
MaxLen == 2
\* number of TxnPayeeCleanup calls in one run of the program
MaxCalls == 2

AGES_AGO == 693596

(***************************************************************************)
(* str                                                                     *)
(***************************************************************************)
Code(c) ==
    CASE c = " " -> 32
      [] c = "," -> 44
      [] c = "-" -> 45
      [] c = "J" -> 74
      [] c = "Y" -> 89
      [] c = "a" -> 97
      [] c = "b" -> 98
      [] c = "c" -> 99
      [] c = "d" -> 100
      [] c = "g" -> 103
      [] c = "i" -> 105
      [] c = "j" -> 106
      [] c = "p" -> 112
      [] c = "t" -> 116
      [] c = "v" -> 118

Whitespace == {" "}

RECURSIVE StrLess(_, _)
StrLess(a, b) ==
    IF b = <<>> THEN FALSE
    ELSE IF a = <<>> THEN TRUE
    ELSE IF Code(Head(a)) # Code(Head(b)) THEN Code(Head(a)) < Code(Head(b))
    ELSE StrLess(Tail(a), Tail(b))

RECURSIVE lstrip(_)
lstrip(s) ==
    IF s # <<>> /\ Head(s) \in Whitespace THEN lstrip(Tail(s)) ELSE s

RECURSIVE rstrip(_)
rstrip(s) ==
    IF s # <<>> /\ s[Len(s)] \in Whitespace
    THEN rstrip(SubSeq(s, 1, Len(s) - 1))
    ELSE s

strip(s) == rstrip(lstrip(s))

lowerChar(c) == IF c = "J" THEN "j" ELSE IF c = "Y" THEN "y" ELSE c

lower(s) == [k \in 1..Len(s) |-> lowerChar(s[k])]

(***************************************************************************)
(* re: patterns, search, expand, sub                                       *)
(***************************************************************************)
\* does pattern r match s with the match starting at position p
MatchAt(r, s, p) ==
    /\ p >= 1
    /\ p + Len(r.cls) - 1 <= Len(s)
    /\ (r.bol => p = 1)
    /\ (r.eol => p + Len(r.cls) - 1 = Len(s))
    /\ \A k \in 1..Len(r.cls) : s[p + k - 1] \in r.cls[k]

NoMatch == [ok |-> FALSE]

\* the re.Match object of r on s at p
MatchObject(r, s, p) ==
    [ok |-> TRUE, re |-> r, string |-> s, start |-> p,
     end |-> p + Len(r.cls) - 1]

\* Pattern.search: the leftmost match, or None
search(r, s) ==
    LET at == {p \in 1..Len(s) : MatchAt(r, s, p)}
    IN IF at = {} THEN NoMatch
       ELSE MatchObject(r, s, CHOOSE p \in at : \A q \in at : p <= q)

\* Match.group(g)
group(m, g) ==
    IF g = 0 THEN SubSeq(m.string, m.start, m.end)
    ELSE SubSeq(m.string, m.start + m.re.groups[g][1] - 1,
                          m.start + m.re.groups[g][2] - 1)

\* a template is a sequence of items: [c |-> char] or [g |-> group number]
IsRef(item) == "g" \in DOMAIN item

\* the template parses against r: every group reference names a group of r
TemplateOk(r, tmpl) ==
    \A k \in 1..Len(tmpl) : IsRef(tmpl[k]) => tmpl[k].g <= Len(r.groups)

RECURSIVE expandItems(_, _)
expandItems(m, tmpl) ==
    IF tmpl = <<>> THEN <<>>
    ELSE (IF IsRef(Head(tmpl)) THEN group(m, Head(tmpl).g) ELSE <<Head(tmpl).c>>)
         \o expandItems(m, Tail(tmpl))

\* Match.expand(template): re.error on an invalid group reference
expand(m, tmpl) ==
    IF TemplateOk(m.re, tmpl)
    THEN [ok |-> TRUE, v |-> expandItems(m, tmpl)]
    ELSE [ok |-> FALSE]

RECURSIVE subFrom(_, _, _, _)
subFrom(r, repl, s, p) ==
    IF p > Len(s) THEN <<>>
    ELSE IF MatchAt(r, s, p)
    THEN expandItems(MatchObject(r, s, p), repl)
         \o subFrom(r, repl, s, p + Len(r.cls))
    ELSE <<s[p]>> \o subFrom(r, repl, s, p + 1)

\* Pattern.sub(repl, s): every non-overlapping match replaced, left to right;
\* the template is parsed first, so a bad reference raises with or without a match
sub(r, repl, s) ==
    IF TemplateOk(r, repl)
    THEN [ok |-> TRUE, v |-> subFrom(r, repl, s, 1)]
    ELSE [ok |-> FALSE]

(***************************************************************************)
(* dict: the sequence of <<key, value>> items in insertion order           *)
(***************************************************************************)
Keys(d) == {d[k][1] : k \in 1..Len(d)}

\* d[key], for key in d
Get(d, key) == d[CHOOSE k \in 1..Len(d) : d[k][1] = key][2]

\* d[key] = value: an existing key keeps its place, a new key goes last
SetItem(d, key, value) ==
    IF key \in Keys(d)
    THEN [k \in 1..Len(d) |-> IF d[k][1] = key THEN <<key, value>> ELSE d[k]]
    ELSE Append(d, <<key, value>>)

\* d1 == d2: the same items, whatever their order
DictEq(d1, d2) == {d1[k] : k \in 1..Len(d1)} = {d2[k] : k \in 1..Len(d2)}

\* tuple comparison of two (str, str) items
ItemLess(x, y) == StrLess(x[1], y[1]) \/ (x[1] = y[1] /\ StrLess(x[2], y[2]))

RECURSIVE sortedItems(_)
\* sorted(d.items())
sortedItems(d) ==
    IF d = <<>> THEN <<>>
    ELSE LET rest == sortedItems(SubSeq(d, 1, Len(d) - 1))
             x == d[Len(d)]
             before == {k \in 1..Len(rest) : ~ItemLess(x, rest[k])}
             n == Cardinality(before)
         IN SubSeq(rest, 1, n) \o <<x>> \o SubSeq(rest, n + 1, Len(rest))

(***************************************************************************)
(* Transaction: the fields the engine reads or replaces.  meta is a        *)
(* reference to a dict of the heap; tags is a set value (Tag.execute       *)
(* builds a new set, no set is ever mutated).                              *)
(***************************************************************************)
\* helpers.EMPTY_META: the one module-level dict every Tx without metadata holds
EMPTY_META == 1

EMPTY_TAGS == {}

\* helpers.Tx(date, payee, tags=, meta=)
Tx(date, payee, tags, meta, h) ==
    LET fresh == Len(h) + 1
    IN [txn |-> [meta |-> IF meta # <<>> THEN fresh ELSE EMPTY_META,
                 date |-> date,
                 payee |-> IF payee # <<>> THEN strip(payee) ELSE <<>>,
                 tags |-> IF tags # {} THEN tags ELSE EMPTY_TAGS],
        heap |-> IF meta # <<>> THEN Append(h, meta) ELSE h]

(***************************************************************************)
(* Action and its variants                                                 *)
(***************************************************************************)
identity == "identity"

transform(t, s) == IF t = "lower" THEN lower(s) ELSE s

\* apply that looks the value up in translation as it is, not lowercased
applyCaseSensitive(a, m) ==
    LET e == expand(m, a.v)
    IN IF ~e.ok THEN [ok |-> FALSE]
       ELSE LET v == transform(a.transformer, strip(e.v))
            IN [ok |-> TRUE,
                v |-> IF v \in DOMAIN a.translation THEN a.translation[v] ELSE v]

\* Action.apply(m)
apply(a, m) ==
    LET e == expand(m, a.v)
    IN IF ~e.ok THEN [ok |-> FALSE]
       ELSE LET v == transform(a.transformer, strip(e.v))
            IN [ok |-> TRUE,
                v |-> IF lower(v) \in DOMAIN a.translation
                      THEN a.translation[lower(v)]
                      ELSE v]

\* Payee.execute(m, txn)
PayeeExecute(a, m, txn, h) ==
    LET p == sub(m.re, a.v, txn.payee)
    IN IF ~p.ok THEN [ok |-> FALSE, txn |-> txn, heap |-> h]
       ELSE [ok |-> TRUE, txn |-> [txn EXCEPT !.payee = strip(p.v)], heap |-> h]

\* TagExecute that keeps only the new tag
TagExecuteReplace(a, m, txn, h) ==
    LET v == apply(a, m)
    IN IF ~v.ok THEN [ok |-> FALSE, txn |-> txn, heap |-> h]
       ELSE [ok |-> TRUE, txn |-> [txn EXCEPT !.tags = {v.v}], heap |-> h]

\* Tag.execute(m, txn)
TagExecute(a, m, txn, h) ==
    LET v == apply(a, m)
    IN IF ~v.ok THEN [ok |-> FALSE, txn |-> txn, heap |-> h]
       ELSE [ok |-> TRUE, txn |-> [txn EXCEPT !.tags = txn.tags \cup {v.v}],
             heap |-> h]

\* MetaExecute that searches the payee as it is now for the value to derive,
\* and fails like an action handed no match when the pattern matches no more
MetaExecuteFromPayee(a, m, txn, h) ==
    LET again == search(m.re, txn.payee)
        isNew == h[txn.meta] = <<>>
        h1 == IF isNew THEN Append(h, <<>>) ELSE h
        meta == IF isNew THEN Len(h) + 1 ELSE txn.meta
    IN IF ~again.ok THEN [ok |-> FALSE, txn |-> txn, heap |-> h1]
       ELSE LET v == apply(a, again)
            IN IF ~v.ok THEN [ok |-> FALSE, txn |-> txn, heap |-> h1]
               ELSE [ok |-> TRUE,
                     txn |-> [txn EXCEPT !.meta = meta],
                     heap |-> [h1 EXCEPT ![meta] =
                                  IF a.n \in Keys(h1[meta])
                                  THEN SetItem(h1[meta], a.n,
                                               Get(h1[meta], a.n) \o <<",", " ">> \o v.v)
                                  ELSE SetItem(h1[meta], a.n, v.v)]]

\* MetaExecute that puts the value in a new dict of its own
MetaExecuteFreshDict(a, m, txn, h) ==
    LET v == apply(a, m)
    IN IF ~v.ok THEN [ok |-> FALSE, txn |-> txn, heap |-> h]
       ELSE [ok |-> TRUE,
             txn |-> [txn EXCEPT !.meta = Len(h) + 1],
             heap |-> Append(h, <<<<a.n, v.v>>>>)]

\* MetaExecute that overwrites the value of a key already there
MetaExecuteOverwrite(a, m, txn, h) ==
    LET isNew == h[txn.meta] = <<>>
        h1 == IF isNew THEN Append(h, <<>>) ELSE h
        meta == IF isNew THEN Len(h) + 1 ELSE txn.meta
        v == apply(a, m)
    IN IF ~v.ok THEN [ok |-> FALSE, txn |-> txn, heap |-> h1]
       ELSE [ok |-> TRUE,
             txn |-> [txn EXCEPT !.meta = meta],
             heap |-> [h1 EXCEPT ![meta] = SetItem(h1[meta], a.n, v.v)]]

\* Meta.execute(m, txn): `txn.meta or {}` is the transaction's own dict unless
\* that dict is empty; the dict is then updated in place
MetaExecute(a, m, txn, h) ==
    LET isNew == h[txn.meta] = <<>>
        h1 == IF isNew THEN Append(h, <<>>) ELSE h
        meta == IF isNew THEN Len(h) + 1 ELSE txn.meta
        v == apply(a, m)
    IN IF ~v.ok THEN [ok |-> FALSE, txn |-> txn, heap |-> h1]
       ELSE [ok |-> TRUE,
             txn |-> [txn EXCEPT !.meta = meta],
             heap |-> [h1 EXCEPT ![meta] =
                          IF a.n \in Keys(h1[meta])
                          THEN SetItem(h1[meta], a.n,
                                       Get(h1[meta], a.n) \o <<",", " ">> \o v.v)
                          ELSE SetItem(h1[meta], a.n, v.v)]]

\* action.execute(m, txn), dispatched on the variant
execute(a, m, txn, h) ==
    CASE a.kind = "Payee" -> PayeeExecute(a, m, txn, h)
      [] a.kind = "Tag" -> TagExecute(a, m, txn, h)
      [] a.kind = "Meta" -> MetaExecute(a, m, txn, h)

NoTranslation == [x \in {} |-> x]

\* the positional constructors P, T, M and the cleaner action C
P(v) == [kind |-> "Payee", v |-> v, transformer |-> identity,
         translation |-> NoTranslation, n |-> <<>>]

T(v, translation) == [kind |-> "Tag", v |-> v, transformer |-> identity,
                      translation |-> translation, n |-> <<>>]

M(n, v, transformer) == [kind |-> "Meta", v |-> v, transformer |-> transformer,
                         translation |-> NoTranslation, n |-> n]

C == P(<<>>)

\* Extractor.new(desc, r, actions)
E(desc, r, actions) ==
    [r |-> r, actions |-> actions, last_used |-> AGES_AGO, description |-> desc]

(***************************************************************************)
(* TxnPayeeCleanup, one step at a time.  The locals of the running (or     *)
(* last) call are the record call; a step maps the record, the Extractor   *)
(* objects and the heap to their next values.                              *)
(*   pc = "loop"    inside `for extractor in extractors`, about to take    *)
(*                  extractors[i], or past the last one                    *)
(*   pc = "done"    returned; call.txn is the returned transaction         *)
(*   pc = "raised"  an exception left the function; nothing is returned    *)
(* call.trace is a history of the loop: one entry per extractor tried.     *)
(***************************************************************************)
None == [some |-> FALSE, key |-> <<>>]

Some(key) == [some |-> TRUE, key |-> key]

\* the truth value of `preserveOriginalIn`: None and '' are false
Truthy(p) == p.some /\ p.key # <<>>

Max(a, b) == IF a >= b THEN a ELSE b

\* the element of a one-element set: names a value that is computed once
Only(S) == CHOOSE x \in S : TRUE

\* Begin without the test of line 128
BeginNoEarlyReturn(txn, extractorsIsNone, preserveOriginalIn, exs, h) ==
    [call |-> [pc |-> "loop", txn |-> txn,
               preserveOriginalIn |-> preserveOriginalIn,
               old_payee |-> txn.payee, old_meta |-> h[txn.meta],
               i |-> 1, trace |-> <<>>],
     extractors |-> exs,
     heap |-> h]

\* lines 128-131: the early return, else the two snapshots
Begin(txn, extractorsIsNone, preserveOriginalIn, exs, h) ==
    LET early == extractorsIsNone \/ txn.payee = <<>>
    IN [call |-> [pc |-> IF early THEN "done" ELSE "loop",
                  txn |-> txn,
                  preserveOriginalIn |-> preserveOriginalIn,
                  old_payee |-> IF early THEN <<>> ELSE txn.payee,
                  old_meta |-> IF early THEN <<>> ELSE h[txn.meta],
                  i |-> 1,
                  trace |-> <<>>],
        extractors |-> exs,
        heap |-> h]

\* RunActions that returns after the first action
RunActionsFirstOnly(actions, m, txn, h) ==
    IF actions = <<>> THEN [ok |-> TRUE, txn |-> txn, heap |-> h, ran |-> 0]
    ELSE LET r == execute(Head(actions), m, txn, h)
         IN [ok |-> r.ok, txn |-> r.txn, heap |-> r.heap,
             ran |-> IF r.ok THEN 1 ELSE 0]

RECURSIVE RunActionsSkipFailed(_, _, _, _)
\* RunActions that passes over an action that raises and goes on with the next
RunActionsSkipFailed(actions, m, txn, h) ==
    IF actions = <<>> THEN [ok |-> TRUE, txn |-> txn, heap |-> h, ran |-> 0]
    ELSE LET r == execute(Head(actions), m, txn, h)
             rest == RunActionsSkipFailed(Tail(actions), m, r.txn, r.heap)
         IN IF r.ok THEN [rest EXCEPT !.ran = rest.ran + 1] ELSE rest

RECURSIVE RunActions(_, _, _, _)
\* lines 136-137: the actions of one extractor, in order, each on the
\* transaction the one before returned; the first to raise ends the call
RunActions(actions, m, txn, h) ==
    IF actions = <<>> THEN [ok |-> TRUE, txn |-> txn, heap |-> h, ran |-> 0]
    ELSE Only({ IF ~r.ok
                THEN [ok |-> FALSE, txn |-> r.txn, heap |-> r.heap, ran |-> 0]
                ELSE Only({ [rest EXCEPT !.ran = rest.ran + 1] :
                            rest \in {RunActions(Tail(actions), m, r.txn, r.heap)} }) :
                r \in {execute(Head(actions), m, txn, h)} })

\* Searched with the payee of the snapshot in place of the current one
SearchedOriginal(c) == c.old_payee

\* line 133: the text the extractor's pattern is searched in
Searched(c) == c.txn.payee

\* Recorded without the max
RecordedDate(date, last_used) == date

\* line 135: the date recorded on a match
Recorded(date, last_used) == Max(date, last_used)

\* Marks that waits for the actions and drops the update if one raises
MarksAfterActions(m, r) == m.ok /\ r.ok

\* lines 133-135: last_used is assigned on a match, ahead of the actions of
\* lines 136-137, whose outcome r it does not depend on
Marks(m, r) == m.ok

\* NextPosition that starts the list again after a turn that rewrote the payee
NextPositionRestart(c, r) == IF r.txn.payee # c.txn.payee THEN 1 ELSE c.i + 1

\* line 132: the for loop goes to the next extractor, whatever the turn did
NextPosition(c, r) == c.i + 1

\* the state a turn for extractors[i] leaves, given the match m of line 133
\* and the outcome r of the actions
Turn(c, exs, m, result) ==
    Only({ LET exs1 == IF Marks(m, r)
                       THEN [exs EXCEPT ![c.i].last_used =
                                Recorded(c.txn.date, exs[c.i].last_used)]
                       ELSE exs
           IN [call |-> [c EXCEPT !.pc = IF r.ok THEN "loop" ELSE "raised",
                                  !.txn = r.txn,
                                  !.i = NextPosition(c, r),
                                  !.trace = Append(c.trace,
                                       [i |-> c.i, searched |-> Searched(c),
                                        matched |-> m.ok, ran |-> r.ran, ok |-> r.ok,
                                        payee |-> r.txn.payee, tags |-> r.txn.tags,
                                        last_used |-> exs1[c.i].last_used])],
               extractors |-> exs1,
               heap |-> r.heap] :
           r \in {result} })

\* lines 132-137: one turn of the loop, for extractors[i]
Iterate(c, exs, h) ==
    Only({ Turn(c, exs, m,
                IF m.ok THEN RunActions(exs[c.i].actions, m, c.txn, h)
                ELSE [ok |-> TRUE, txn |-> c.txn, heap |-> h, ran |-> 0]) :
           m \in {search(exs[c.i].r, Searched(c))} })

\* PreserveNeeded without the comparison of the payees
PreserveAlways(c) == Truthy(c.preserveOriginalIn)

\* line 138: is the original payee to be written
PreserveNeeded(c) == Truthy(c.preserveOriginalIn) /\ c.txn.payee # c.old_payee

\* PreservedValue with the payee the call ends with
PreservedValueFinal(c) == c.txn.payee

\* line 139: the value written under preserveOriginalIn
PreservedValue(c) == c.old_payee

\* PreserveWrite that leaves a key already there as it is
PreserveWriteIfAbsent(d, key, value) ==
    IF key \in Keys(d) THEN d ELSE SetItem(d, key, value)

\* line 139: the assignment txn.meta[preserveOriginalIn] = old_payee
PreserveWrite(d, key, value) == SetItem(d, key, value)

\* Sorted that copies the dict in the order it has
SortedAsInserted(d) == d

\* line 141: the dict the changed metadata is replaced by
Sorted(d) == sortedItems(d)

\* lines 138-142: the preserve-original write, the sorted copy, the return
Finish(c, exs, h) ==
    LET h1 == IF PreserveNeeded(c)
              THEN [h EXCEPT ![c.txn.meta] =
                       PreserveWrite(h[c.txn.meta], c.preserveOriginalIn.key,
                                     PreservedValue(c))]
              ELSE h
        changed == ~DictEq(h1[c.txn.meta], c.old_meta)
    IN [call |-> [c EXCEPT !.pc = "done",
                           !.txn = IF changed
                                   THEN [c.txn EXCEPT !.meta = Len(h1) + 1]
                                   ELSE c.txn],
        extractors |-> exs,
        heap |-> IF changed THEN Append(h1, Sorted(h1[c.txn.meta])) ELSE h1]

RECURSIVE Run(_)
\* a call run to its end from the point s
Run(s) ==
    IF s.call.pc # "loop" THEN s
    ELSE IF s.call.i <= Len(s.extractors)
    THEN Run(Iterate(s.call, s.extractors, s.heap))
    ELSE Run(Finish(s.call, s.extractors, s.heap))

\* TxnPayeeCleanup(txn, extractors, preserveOriginalIn) as one function of
\* its arguments and of the objects it shares with its caller
TxnPayeeCleanup(txn, extractorsIsNone, preserveOriginalIn, exs, h) ==
    Run(Begin(txn, extractorsIsNone, preserveOriginalIn, exs, h))

(***************************************************************************)
(* extractorsUsage                                                         *)
(***************************************************************************)
\* UsageLess that compares the dates only
UsageLessByDate(x, y) == x[1] < y[1]

\* tuple comparison of two (date, str) pairs
UsageLess(x, y) == x[1] < y[1] \/ (x[1] = y[1] /\ StrLess(x[2], y[2]))

RECURSIVE sortedUsage(_)
\* sorted([(date, str), ...])
sortedUsage(l) ==
    IF l = <<>> THEN <<>>
    ELSE LET rest == sortedUsage(SubSeq(l, 1, Len(l) - 1))
             x == l[Len(l)]
             n == Cardinality({k \in 1..Len(rest) : ~UsageLess(x, rest[k])})
         IN SubSeq(rest, 1, n) \o <<x>> \o SubSeq(rest, n + 1, Len(rest))

\* extractorsUsage(extractors)
extractorsUsage(exs) ==
    sortedUsage([k \in 1..Len(exs) |-> <<exs[k].last_used, exs[k].description>>])

(***************************************************************************)
(* The rule tables the program is configured with, after the fixture of    *)
(* tests/cleaner_test.py, over the payee alphabet {"J", "j", " "}.         *)
(***************************************************************************)
Alphabet == {"J", "j", " "}

\* the group reference \g and a literal character
Ref(g) == [g |-> g]

Lit(c) == [c |-> c]

\* (?i)^(J)
ReId == [bol |-> TRUE, cls |-> <<{"J", "j"}>>, eol |-> FALSE, groups |-> <<<<1, 1>>>>]

\* ([Jj])J$
ReTag == [bol |-> FALSE, cls |-> <<{"J", "j"}, {"J"}>>, eol |-> TRUE,
          groups |-> <<<<1, 1>>>>]

\* (j)(J)
ReGap == [bol |-> FALSE, cls |-> <<{"j"}, {"J"}>>, eol |-> FALSE,
          groups |-> <<<<1, 1>>, <<2, 2>>>>]

\* (j)
ReCap == [bol |-> FALSE, cls |-> <<{"j"}>>, eol |-> FALSE, groups |-> <<<<1, 1>>>>]

\* (J)$
ReBad == [bol |-> FALSE, cls |-> <<{"J"}>>, eol |-> TRUE, groups |-> <<<<1, 1>>>>]

KeyId == <<"i", "d">>

KeyP == <<"p">>

\* extract a leading J or j, lowercase it, add it to metadata as id, clear it
EId == E(<<"i", "d">>, ReId, <<M(KeyId, <<Ref(1)>>, "lower"), C>>)

\* match a closing jJ or JJ, look the first letter up in the table and tag,
\* no replacement
ETag == E(<<"t", "a", "g">>, ReTag,
          <<T(<<Ref(1)>>, (<<"j">> :> <<"Y">>)), P(<<Ref(0)>>)>>)

\* match jJ, replace with j J, no extraction
EGap == E(<<"g", "a", "p">>, ReGap, <<P(<<Ref(1), Lit(" "), Ref(2)>>)>>)

\* match a j, add id=v-j to metadata, replace every j with J
ECap == E(<<"c", "a", "p">>, ReCap,
          <<M(KeyId, <<Lit("v"), Lit("-"), Ref(1)>>, identity), P(<<Lit("J")>>)>>)

\* a defective rule: its Tag template names a group the pattern does not have
EBad == E(<<"b", "a", "d">>, ReBad,
          <<M(KeyP, <<Lit(" "), Ref(1)>>, identity), T(<<Ref(2)>>, NoTranslation),
            C>>)

\* the Extractors lists a program is configured with
ExtractorLists ==
    { <<>>,
      <<ETag, EGap>>,
      <<EGap, ETag>>,
      <<EId, EBad, ECap>>,
      <<ECap>> }

(***************************************************************************)
(* The arguments callers pass                                              *)
(***************************************************************************)
RECURSIVE StringsUpTo(_)
StringsUpTo(n) ==
    IF n = 0 THEN {<<>>}
    ELSE LET shorter == StringsUpTo(n - 1)
         IN shorter \cup {Append(s, c) : s \in shorter, c \in Alphabet}

Payees == StringsUpTo(MaxLen)

\* a date before the sentinel and one after it
Dates == {AGES_AGO - 1, AGES_AGO + 1}

TagSets == {{}, {<<"j">>, <<"Y">>}}

\* no metadata, and {'p': 'j', 'id': 'J'}
Metas == { <<>>,
           << <<KeyP, <<"j">>>>, <<KeyId, <<"J">>>> >> }

\* None, '' and a key the rules write too
PreserveArgs == {None, Some(<<>>), Some(KeyId)}

(***************************************************************************)
(* State                                                                   *)
(***************************************************************************)
VARIABLES
    extractors, \* the Extractor objects of the configured list, with last_used
    heap,       \* the dict objects; heap[EMPTY_META] is helpers.EMPTY_META
    call,       \* the locals of the running or last TxnPayeeCleanup call
    entry,      \* the arguments and the shared objects as the call found them,
                \* and where the transaction came from ("Tx" or "output")
    calls,      \* calls made so far
    usage       \* the last report of extractorsUsage, <<>> before one is made

vars == <<extractors, heap, call, entry, calls, usage>>

NoTxn == [meta |-> EMPTY_META, date |-> AGES_AGO, payee |-> <<>>, tags |-> {}]

Idle == [pc |-> "idle", txn |-> NoTxn, preserveOriginalIn |-> None,
         old_payee |-> <<>>, old_meta |-> <<>>, i |-> 1, trace |-> <<>>]

Init ==
    /\ extractors \in ExtractorLists
    /\ heap = <<<<>>>>
    /\ call = Idle
    /\ entry = [txn |-> NoTxn, extractorsIsNone |-> TRUE,
                preserveOriginalIn |-> None, extractors |-> extractors,
                heap |-> <<<<>>>>, from |-> "none"]
    /\ calls = 0
    /\ usage = <<>>

\* the last call is over: it returned, or it raised
Over == call.pc \in {"done", "raised"}

\* the function is entered with txn on heap h
Enter(txn, extractorsIsNone, preserveOriginalIn, h, from) ==
    \E s \in {Begin(txn, extractorsIsNone, preserveOriginalIn, extractors, h)} :
       /\ call' = s.call
       /\ heap' = s.heap
       /\ extractors' = s.extractors
       /\ entry' = [txn |-> txn, extractorsIsNone |-> extractorsIsNone,
                    preserveOriginalIn |-> preserveOriginalIn,
                    extractors |-> extractors, heap |-> h, from |-> from]
       /\ calls' = calls + 1
       /\ usage' = <<>>

\* TxnPayeeCleanup(Tx(date, payee, tags=tags, meta=meta), ...)
CallOnTx ==
    /\ call.pc = "idle"
    /\ calls < MaxCalls
    /\ \E date \in Dates, payee \in Payees, tags \in TagSets, meta \in Metas,
          extractorsIsNone \in BOOLEAN, preserveOriginalIn \in PreserveArgs :
          \E t \in {Tx(date, payee, tags, meta, heap)} :
             Enter(t.txn, extractorsIsNone, preserveOriginalIn, t.heap, "Tx")

\* TxnPayeeCleanup(out, extractors, ...) on the transaction the last call returned
CallOnOutput ==
    /\ call.pc = "done"
    /\ calls < MaxCalls
    /\ \E preserveOriginalIn \in PreserveArgs :
          IF call.txn.meta = EMPTY_META
          THEN Enter(call.txn, FALSE, preserveOriginalIn, <<heap[EMPTY_META]>>,
                     "output")
          ELSE Enter([call.txn EXCEPT !.meta = 2], FALSE, preserveOriginalIn,
                     <<heap[EMPTY_META], heap[call.txn.meta]>>, "output")

\* one turn of `for extractor in extractors`
Loop ==
    /\ call.pc = "loop"
    /\ call.i <= Len(extractors)
    /\ \E s \in {Iterate(call, extractors, heap)} :
          /\ call' = s.call
          /\ heap' = s.heap
          /\ extractors' = s.extractors
    /\ UNCHANGED <<entry, calls, usage>>

\* the statements after the loop, to the return
Return ==
    /\ call.pc = "loop"
    /\ call.i > Len(extractors)
    /\ \E s \in {Finish(call, extractors, heap)} :
          /\ call' = s.call
          /\ heap' = s.heap
          /\ extractors' = s.extractors
    /\ UNCHANGED <<entry, calls, usage>>

\* extractorsUsage(extractors), between calls
Report ==
    /\ call.pc = "idle"
    /\ usage' = extractorsUsage(extractors)
    /\ UNCHANGED <<extractors, heap, call, entry, calls>>

\* the caller lets go of the transactions of the last call and of the report:
\* of the dicts only EMPTY_META, which the helpers module holds, lives on
Release ==
    /\ Over
    /\ call' = Idle
    /\ entry' = [txn |-> NoTxn, extractorsIsNone |-> TRUE,
                 preserveOriginalIn |-> None, extractors |-> extractors,
                 heap |-> <<heap[EMPTY_META]>>, from |-> "none"]
    /\ heap' = <<heap[EMPTY_META]>>
    /\ usage' = <<>>
    /\ UNCHANGED <<extractors, calls>>

Next ==
    \/ CallOnTx
    \/ CallOnOutput
    \/ Loop
    \/ Return
    \/ Report
    \/ Release

Spec == Init /\ [][Next]_vars

\* TxnPayeeCleanup is a synchronous function: once called it runs on, turn
\* after turn, until it returns or raises
LiveSpec == Spec /\ WF_vars(Loop) /\ WF_vars(Return)

(***************************************************************************)
(* Properties                                                              *)
(***************************************************************************)
\* the metadata of the transaction passed in, as it was at entry
InMeta == entry.heap[entry.txn.meta]

\* the metadata of the engine's current (at "done": the returned) transaction
OutMeta == heap[call.txn.meta]

Done == call.pc = "done"

\* the call went past the early return of line 128
Looped == call.pc # "idle" /\ ~entry.extractorsIsNone /\ entry.txn.payee # <<>>

\* what the call would have returned for another list and another
\* preserveOriginalIn, from the same transaction and the same shared objects
Rerun(exs, preserveOriginalIn) ==
    TxnPayeeCleanup(entry.txn, FALSE, preserveOriginalIn, exs, entry.heap)

HasPayeeAction(e) == \E k \in 1..Len(e.actions) : e.actions[k].kind = "Payee"

\* C1: the extractors are tried in list order, one turn each, and the k-th is
\* searched in the payee that the extractors before it have left, which is the
\* payee a call with only those extractors returns; when none of the earlier
\* extractors that matched has a Payee action this is the payee passed in.
C1_ListOrderOnCurrentPayee ==
    Looped =>
        /\ call.i = Len(call.trace) + 1
        /\ Done => Len(call.trace) = Len(extractors)
        /\ \A k \in 1..Len(call.trace) :
            /\ call.trace[k].i = k
            /\ call.trace[k].matched =
                   search(extractors[k].r, call.trace[k].searched).ok
            /\ call.trace[k].searched =
                   Rerun(SubSeq(entry.extractors, 1, k - 1), None).call.txn.payee
            /\ (\A q \in 1..(k - 1) :
                    call.trace[q].matched => ~HasPayeeAction(extractors[q]))
               => call.trace[k].searched = entry.txn.payee

\* C1 witness: the second extractor matched a payee the first had rewritten
C1_Witness ==
    /\ Looped
    /\ Len(call.trace) >= 2
    /\ call.trace[1].matched
    /\ call.trace[2].matched
    /\ call.trace[2].searched # entry.txn.payee

\* the values the Tag actions of e derive from its match in payee p
TagsOf(e, p) ==
    {apply(e.actions[k], search(e.r, p)).v :
        k \in {j \in 1..Len(e.actions) : e.actions[j].kind = "Tag"}}

\* the keys the Meta actions of e write
MetaKeysOf(e) ==
    {e.actions[k].n : k \in {j \in 1..Len(e.actions) : e.actions[j].kind = "Meta"}}

\* the two extractors of the list are B then A, both match the payee passed in,
\* B leaves the payee as it is, A has a Payee action and B does not match the
\* payee A leaves; neither rule is defective
OrderSensitive(B, A) ==
    LET p == entry.txn.payee
        onlyA == Rerun(<<A>>, entry.preserveOriginalIn)
        onlyB == Rerun(<<B>>, entry.preserveOriginalIn)
    IN /\ search(B.r, p).ok
       /\ search(A.r, p).ok
       /\ HasPayeeAction(A)
       /\ onlyA.call.pc = "done"
       /\ onlyB.call.pc = "done"
       /\ onlyB.call.txn.payee = p
       /\ ~search(B.r, onlyA.call.txn.payee).ok

\* C2: for a list [B, A] of that kind both extractors fire and what B's Tag and
\* Meta actions add is in the result; the same call with the list [A, B] runs
\* none of B's actions, returns the tags and metadata A alone gives, and returns
\* the same payee as [B, A].
C2_OrderingSensitivity ==
    (Done /\ Looped /\ Len(entry.extractors) = 2) =>
        LET B == entry.extractors[1]
            A == entry.extractors[2]
            swapped == Rerun(<<A, B>>, entry.preserveOriginalIn)
            onlyA == Rerun(<<A>>, entry.preserveOriginalIn)
        IN OrderSensitive(B, A) =>
            /\ call.trace[1].matched /\ call.trace[1].ran = Len(B.actions)
            /\ call.trace[2].matched /\ call.trace[2].ran = Len(A.actions)
            /\ TagsOf(B, entry.txn.payee) \subseteq call.txn.tags
            /\ MetaKeysOf(B) \subseteq Keys(OutMeta)
            /\ swapped.call.pc = "done"
            /\ swapped.call.trace[1].matched
            /\ ~swapped.call.trace[2].matched /\ swapped.call.trace[2].ran = 0
            /\ swapped.call.txn.tags = onlyA.call.txn.tags
            /\ swapped.heap[swapped.call.txn.meta] = onlyA.heap[onlyA.call.txn.meta]
            /\ swapped.call.txn.payee = call.txn.payee

\* C2 witness: a list [B, A] of that kind has run, and B's tag is new
C2_Witness ==
    /\ Done /\ Looped /\ Len(entry.extractors) = 2
    /\ OrderSensitive(entry.extractors[1], entry.extractors[2])
    /\ TagsOf(entry.extractors[1], entry.txn.payee) # {}
    /\ ~(TagsOf(entry.extractors[1], entry.txn.payee) \subseteq entry.txn.tags)

\* no pattern of the list matches the payee passed in
NoExtractorMatches ==
    \A k \in 1..Len(entry.extractors) :
        ~search(entry.extractors[k].r, entry.txn.payee).ok

\* C3: a call with a list none of whose patterns matches the payee returns the
\* transaction it was given, with the payee, tags, date and metadata it had at
\* entry, whatever preserveOriginalIn is; this includes a second call on the
\* transaction a first call returned.
C3_NoMatchUnchanged ==
    (Done /\ ~entry.extractorsIsNone /\ NoExtractorMatches) =>
        /\ call.txn.payee = entry.txn.payee
        /\ call.txn.tags = entry.txn.tags
        /\ call.txn.date = entry.txn.date
        /\ OutMeta = InMeta

\* C3 witness: a first call rewrote the payee, and no pattern matched the
\* payee of its output in the second call, which had a preserveOriginalIn
C3_Witness ==
    /\ Done /\ Looped /\ NoExtractorMatches
    /\ entry.from = "output"
    /\ Len(entry.extractors) > 0
    /\ Truthy(entry.preserveOriginalIn)
    /\ \E k \in 1..Len(entry.extractors) : entry.extractors[k].last_used # AGES_AGO

\* C4: with extractors None, with the empty list, or with an empty payee, the
\* call returns the transaction it was given, no dict is written or made, no
\* last_used changes and nothing is raised.
C4_EarlyReturnUnchanged ==
    (call.pc # "idle"
       /\ (entry.extractorsIsNone \/ entry.extractors = <<>> \/ entry.txn.payee = <<>>)) =>
        /\ extractors = entry.extractors
        /\ heap = entry.heap
        /\ call.txn = entry.txn
        /\ call.pc # "raised"

\* C4 witness: a call with extractors None and a preserveOriginalIn returned, on
\* a payee the first extractor of the configured list matches
C4_Witness ==
    /\ Done
    /\ entry.extractorsIsNone
    /\ Truthy(entry.preserveOriginalIn)
    /\ Len(extractors) > 0
    /\ search(extractors[1].r, entry.txn.payee).ok

\* one step of the program, seen from extractors[k]: in a turn of the loop the
\* extractor of that turn gets max(last_used, date) if its pattern matches the
\* current payee; in every other case last_used stays
LastUsedStep(k) ==
    extractors'[k].last_used =
        IF /\ call.pc = "loop" /\ call'.i = call.i + 1 /\ k = call.i
           /\ search(extractors[k].r, call.txn.payee).ok
        THEN Max(extractors[k].last_used, call.txn.date)
        ELSE extractors[k].last_used

\* C5: last_used starts at the sentinel, never decreases, and changes only in
\* a turn of the loop whose extractor matches the current payee, to the maximum
\* of its value and the date of the transaction.
C5_LastUsedMonotone ==
    /\ \A k \in 1..Len(extractors) : extractors[k].last_used = AGES_AGO
    /\ [][/\ Len(extractors') = Len(extractors)
          /\ \A k \in 1..Len(extractors) :
              /\ LastUsedStep(k)
              /\ extractors'[k].last_used >= extractors[k].last_used]_vars

\* C5 witness: an extractor matched a transaction older than one it had
\* matched in an earlier call
C5_Witness ==
    \E k \in 1..Len(call.trace) :
        /\ call.trace[k].matched
        /\ entry.extractors[k].last_used > AGES_AGO
        /\ entry.txn.date < entry.extractors[k].last_used
        /\ extractors[k].last_used = entry.extractors[k].last_used

\* the loop is about to take an extractor whose pattern matches the payee
AtMatch ==
    /\ call.pc = "loop"
    /\ call.i <= Len(extractors)
    /\ search(extractors[call.i].r, call.txn.payee).ok

\* the transaction and the heap the k-th action of the extractor about to be
\* taken is executed on: what the actions before it have left
Before(k) ==
    RunActions(SubSeq(extractors[call.i].actions, 1, k - 1),
               search(extractors[call.i].r, call.txn.payee), call.txn, heap)

\* the positions of the actions of one kind in the extractor about to be taken
ActionsOfKind(kind) ==
    {k \in 1..Len(extractors[call.i].actions) :
        extractors[call.i].actions[k].kind = kind}

\* C6: a Meta action with key n and derived value v gives a transaction whose
\* metadata has under n the old value, ", " and v if n was a key, and v if it
\* was not; the keys are the old keys and n, and every other key keeps its value.
C6_MetaAppend ==
    AtMatch =>
        \A k \in ActionsOfKind("Meta") :
            LET a == extractors[call.i].actions[k]
                m == search(extractors[call.i].r, call.txn.payee)
                pre == Before(k)
                v == apply(a, m)
            IN (pre.ok /\ v.ok) =>
                LET r == MetaExecute(a, m, pre.txn, pre.heap)
                    old == pre.heap[pre.txn.meta]
                    new == r.heap[r.txn.meta]
                IN /\ r.ok
                   /\ Keys(new) = Keys(old) \cup {a.n}
                   /\ Get(new, a.n) = IF a.n \in Keys(old)
                                      THEN Get(old, a.n) \o <<",", " ">> \o v.v
                                      ELSE v.v
                   /\ \A key \in Keys(old) \ {a.n} : Get(new, key) = Get(old, key)

\* C6 witness: a call returned in which a Meta action appended to the value
\* the key id had at entry, and the key p kept its value
C6_Witness ==
    /\ Done /\ Looped
    /\ KeyId \in Keys(InMeta) /\ KeyP \in Keys(InMeta)
    /\ KeyId \in Keys(OutMeta)
    /\ Len(Get(OutMeta, KeyId)) > Len(Get(InMeta, KeyId)) + 2
    /\ SubSeq(Get(OutMeta, KeyId), 1, Len(Get(InMeta, KeyId)) + 2) =
           Get(InMeta, KeyId) \o <<",", " ">>
    /\ Get(OutMeta, KeyP) = Get(entry.heap[entry.txn.meta], KeyP)

\* C7: a Tag action gives a transaction whose tags are the tags before and the
\* derived value; if the value was a tag already the tags are as before, and
\* the same action executed again on the result adds nothing.
C7_TagSetSemantics ==
    AtMatch =>
        \A k \in ActionsOfKind("Tag") :
            LET a == extractors[call.i].actions[k]
                m == search(extractors[call.i].r, call.txn.payee)
                pre == Before(k)
                v == apply(a, m)
            IN (pre.ok /\ v.ok) =>
                LET r == TagExecute(a, m, pre.txn, pre.heap)
                    again == TagExecute(a, m, r.txn, r.heap)
                IN /\ r.ok /\ again.ok
                   /\ r.txn.tags = pre.txn.tags \cup {v.v}
                   /\ v.v \in pre.txn.tags => r.txn.tags = pre.txn.tags
                   /\ again.txn.tags = r.txn.tags

\* C7 witness: an extractor ran all its actions, its Tag action derived a tag
\* the transaction already had among others, and the call returned those tags
C7_Witness ==
    /\ Done /\ Looped
    /\ \E k \in 1..Len(call.trace) :
          /\ call.trace[k].matched
          /\ call.trace[k].ran = Len(extractors[k].actions)
          /\ TagsOf(extractors[k], call.trace[k].searched) # {}
          /\ TagsOf(extractors[k], call.trace[k].searched) \subseteq entry.txn.tags
          /\ TagsOf(extractors[k], call.trace[k].searched) # entry.txn.tags
    /\ call.txn.tags = entry.txn.tags

\* C8: a call that went through the loop and returned.  With a non-empty
\* preserveOriginalIn and a returned payee other than the payee at entry, the
\* returned metadata has the payee at entry under that key.  With the returned
\* payee equal to the payee at entry, or with no key or the empty key, the
\* engine writes nothing: the returned metadata is that of the same call made
\* without preserveOriginalIn.
C8_PreserveOriginal ==
    (Done /\ Looped) =>
        LET key == entry.preserveOriginalIn.key
            changed == call.txn.payee # entry.txn.payee
        IN IF Truthy(entry.preserveOriginalIn) /\ changed
           THEN /\ key \in Keys(OutMeta)
                /\ Get(OutMeta, key) = entry.txn.payee
           ELSE \E plain \in {Rerun(entry.extractors, None)} :
                   OutMeta = plain.heap[plain.call.txn.meta]

\* C8 witness: a call with preserveOriginalIn returned another payee, and the
\* key, which had another value at entry, holds the payee at entry
C8_Witness ==
    /\ Done /\ Looped
    /\ Truthy(entry.preserveOriginalIn)
    /\ call.txn.payee # entry.txn.payee
    /\ entry.preserveOriginalIn.key \in Keys(InMeta)
    /\ Get(InMeta, entry.preserveOriginalIn.key) # entry.txn.payee
    /\ Get(OutMeta, entry.preserveOriginalIn.key) = entry.txn.payee

\* the report has one pair per extractor, with its last_used and description
OnePairEach ==
    /\ Len(usage) = Len(extractors)
    /\ \A k \in 1..Len(extractors) :
          Cardinality({j \in 1..Len(usage) :
                          usage[j] = <<extractors[k].last_used,
                                       extractors[k].description>>}) =
          Cardinality({j \in 1..Len(extractors) :
                          /\ extractors[j].last_used = extractors[k].last_used
                          /\ extractors[j].description = extractors[k].description})

\* C9: a report has one pair per extractor with that extractor's last_used, in
\* ascending order of date and, for equal dates, of description; before any
\* call every pair has the sentinel date, and a pair with the sentinel date
\* comes before every pair with a later date; making the report changes no
\* last_used.
C9_UsageReport ==
    /\ [](usage # <<>> =>
            /\ OnePairEach
            /\ \A i \in 1..Len(usage), j \in 1..Len(usage) :
                  /\ i < j =>
                        \/ usage[i][1] < usage[j][1]
                        \/ /\ usage[i][1] = usage[j][1]
                           /\ ~StrLess(usage[j][2], usage[i][2])
                  /\ (usage[i][1] = AGES_AGO /\ usage[j][1] > AGES_AGO) => i < j
            /\ calls = 0 => \A i \in 1..Len(usage) : usage[i][1] = AGES_AGO)
    /\ [][(usage' # <<>> /\ usage' # usage) => extractors' = extractors]_vars

\* C9 witness: a report made after calls, in which an extractor that has the
\* sentinel date comes before one listed ahead of it that has a later date
C9_Witness ==
    /\ usage # <<>>
    /\ calls > 0
    /\ Len(extractors) >= 2
    /\ extractors[1].last_used > AGES_AGO
    /\ usage[1][1] = AGES_AGO
    /\ usage[1][2] # extractors[1].description
    /\ usage[Len(usage)][1] > AGES_AGO

\* C10: after a call that returned, the transaction passed in has the payee,
\* the tags and the metadata contents it had before the call.  Payee and tags
\* are values the code never writes to (str; Tag.execute adds to a copy of the
\* set), the metadata is the dict object the transaction refers to.
C10_InputNotMutated ==
    Done => heap[entry.txn.meta] = entry.heap[entry.txn.meta]

\* a rule with a defect: the value template of one of its actions names a
\* capture group its pattern does not have
Defective(e) ==
    \E k \in 1..Len(e.actions) : ~TemplateOk(e.r, e.actions[k].v)

\* C11: in a call that went into the loop, the turn of an extractor fails
\* exactly when the extractor matched and has a defect; a failed turn is the
\* last turn of the call and the call has raised, so that no later extractor is
\* tried and no transaction is returned; a call that has raised has a failed
\* last turn.
C11_DefectPropagates ==
    Looped =>
        /\ \A k \in 1..Len(call.trace) :
              /\ call.trace[k].ok =
                    ~(call.trace[k].matched /\ Defective(extractors[k]))
              /\ ~call.trace[k].ok =>
                    /\ k = Len(call.trace)
                    /\ call.pc = "raised"
        /\ call.pc = "raised" =>
              /\ Len(call.trace) > 0
              /\ ~call.trace[Len(call.trace)].ok
        /\ Done => \A k \in 1..Len(call.trace) : call.trace[k].ok

\* C11 witness: the call raised in the turn of its second extractor, after
\* the first had matched and run, with a third extractor left untried
C11_Witness ==
    /\ call.pc = "raised"
    /\ Len(call.trace) = 2
    /\ Len(extractors) = 3
    /\ call.trace[1].matched /\ call.trace[1].ok
    /\ call.trace[2].matched /\ ~call.trace[2].ok

\* C12: in every state of a call, an extractor whose turn matched has a
\* last_used no earlier than the date of the transaction, from the end of that
\* turn on: also when its actions left payee and tags as they were, and when
\* one of its actions raised.
C12_LastUsedBeforeActions ==
    Looped =>
        \A k \in 1..Len(call.trace) :
            call.trace[k].matched =>
                /\ call.trace[k].last_used >= entry.txn.date
                /\ extractors[k].last_used >= entry.txn.date
                /\ call.txn.date = entry.txn.date

\* C12 witness: an action of an extractor raised, and the extractor, which had
\* an earlier last_used before the call, has the date of the transaction
C12_Witness ==
    /\ call.pc = "raised"
    /\ call.trace[Len(call.trace)].matched
    /\ entry.extractors[Len(call.trace)].last_used < entry.txn.date
    /\ extractors[Len(call.trace)].last_used = entry.txn.date

\* a Meta action writing key ran in a turn of the call
MetaWrote(key) ==
    \E k \in 1..Len(call.trace) :
        /\ call.trace[k].matched /\ call.trace[k].ok
        /\ key \in MetaKeysOf(extractors[k])

\* C13: a call with a non-empty preserveOriginalIn returned a payee other than
\* the one passed in, and the key was in the metadata passed in or was written
\* by a Meta action of the pass.  The returned metadata has the key once, with
\* exactly the payee passed in; its other keys and their values are those of
\* the same call made without preserveOriginalIn, so the write comes after the
\* whole pass and replaces what the pass left under the key.
C13_PreserveOverwrites ==
    (/\ Done /\ Looped
     /\ Truthy(entry.preserveOriginalIn)
     /\ call.txn.payee # entry.txn.payee
     /\ (entry.preserveOriginalIn.key \in Keys(InMeta)
            \/ MetaWrote(entry.preserveOriginalIn.key))) =>
        \E plain \in {Rerun(entry.extractors, None)} :
            LET key == entry.preserveOriginalIn.key
                plainMeta == plain.heap[plain.call.txn.meta]
            IN /\ Cardinality({k \in 1..Len(OutMeta) : OutMeta[k][1] = key}) = 1
               /\ Get(OutMeta, key) = entry.txn.payee
               /\ key \in Keys(plainMeta)
               /\ Keys(OutMeta) = Keys(plainMeta)
               /\ \A other \in Keys(plainMeta) \ {key} :
                     Get(OutMeta, other) = Get(plainMeta, other)

\* C13 witness: the key was in the metadata passed in, a Meta action appended
\* to it during the pass, and the returned value is the payee passed in
C13_Witness ==
    /\ Done /\ Looped
    /\ Truthy(entry.preserveOriginalIn)
    /\ call.txn.payee # entry.txn.payee
    /\ entry.preserveOriginalIn.key \in Keys(InMeta)
    /\ MetaWrote(entry.preserveOriginalIn.key)
    /\ Get(OutMeta, entry.preserveOriginalIn.key) = entry.txn.payee
    /\ \E plain \in {Rerun(entry.extractors, None)} :
          Get(plain.heap[plain.call.txn.meta], entry.preserveOriginalIn.key)
              \notin {entry.txn.payee, Get(InMeta, entry.preserveOriginalIn.key)}

\* the keys of d are in ascending order of their code points
KeysAscending(d) ==
    \A i \in 1..Len(d), j \in 1..Len(d) : i < j => StrLess(d[i][1], d[j][1])

\* C14: the step that returns from a call that went through the loop.  The
\* snapshot is the metadata passed in.  If the metadata the transaction has
\* after the preserve-original write differs from the snapshot, the returned
\* transaction has a new dict with the same items, keys ascending; if not, the
\* returned transaction is the one the pass ended with, its dict in the order
\* it had.  Payee, tags and date are those the pass ended with.
C14_SortedWhenChanged ==
    [][(call.pc = "loop" /\ call'.pc = "done") =>
          LET final == heap'[call.txn.meta]
          IN /\ call.old_meta = InMeta
             /\ call'.txn.payee = call.txn.payee
             /\ call'.txn.tags = call.txn.tags
             /\ call'.txn.date = call.txn.date
             /\ IF DictEq(final, call.old_meta)
                THEN /\ call'.txn.meta = call.txn.meta
                     /\ heap'[call'.txn.meta] = InMeta
                ELSE /\ call'.txn.meta \notin DOMAIN heap
                     /\ DictEq(heap'[call'.txn.meta], final)
                     /\ Len(heap'[call'.txn.meta]) = Len(final)
                     /\ KeysAscending(heap'[call'.txn.meta])]_vars

\* C14 witness: the metadata passed in had its keys out of order, the pass
\* changed a value, and the returned metadata has the keys in order
C14_Witness ==
    /\ Done /\ Looped
    /\ ~KeysAscending(InMeta)
    /\ ~DictEq(OutMeta, InMeta)
    /\ Keys(OutMeta) = Keys(InMeta)
    /\ KeysAscending(OutMeta)

\* C15: a call is one pass over the list.  The turns taken so far are those of
\* positions 1, 2, ... in order, one each; a call that has raised has met a
\* defective rule that matched; a step of a running call either takes the next
\* position or, past the last one, returns with the turns it has; and a running
\* call eventually returns or raises.
C15_OneLinearPass ==
    /\ [](Looped =>
            /\ Len(call.trace) = call.i - 1
            /\ Len(call.trace) <= Len(extractors)
            /\ \A k \in 1..Len(call.trace) : call.trace[k].i = k
            /\ Done => Len(call.trace) = Len(extractors)
            /\ call.pc = "raised" =>
                  \E k \in 1..Len(call.trace) :
                      call.trace[k].matched /\ Defective(extractors[k]))
    /\ [][call.pc = "loop" =>
            \/ /\ call.i <= Len(extractors)
               /\ call'.i = call.i + 1
               /\ SubSeq(call'.trace, 1, Len(call.trace)) = call.trace
               /\ call'.pc \in {"loop", "raised"}
            \/ /\ call.i = Len(extractors) + 1
               /\ call'.pc = "done"
               /\ call'.trace = call.trace]_vars
    /\ (call.pc = "loop") ~> Over

\* C15 witness: the call returned after one turn per extractor although the
\* payee a later extractor wrote is matched by the first extractor's pattern,
\* which had matched already in its turn
C15_Witness ==
    /\ Done /\ Looped
    /\ Len(call.trace) = Len(extractors)
    /\ Len(extractors) >= 2
    /\ call.trace[1].matched
    /\ call.trace[Len(call.trace)].matched
    /\ call.trace[Len(call.trace)].payee # call.trace[Len(call.trace)].searched
    /\ search(extractors[1].r, call.txn.payee).ok

\* s without its leading and trailing whitespace is t
Stripped(s, t) ==
    /\ \E i \in 1..(Len(s) + 1), j \in 0..Len(s) :
          /\ t = SubSeq(s, i, j)
          /\ \A k \in 1..(i - 1) : s[k] \in Whitespace
          /\ \A k \in (j + 1)..Len(s) : s[k] \in Whitespace
    /\ t # <<>> => (t[1] \notin Whitespace /\ t[Len(t)] \notin Whitespace)

\* C16: for every Tag or Meta action of a rule that matches the current payee
\* and whose template fits the pattern, apply gives: the template expanded
\* with the groups of the match, stripped, passed through the transformer, and
\* then the entry of translation under the lowercased value if there is one,
\* else the transformed value in its own case.  With the default transformer
\* and no translation that is the stripped expansion.
C16_ApplyPipeline ==
    AtMatch =>
        \A k \in ActionsOfKind("Tag") \cup ActionsOfKind("Meta") :
            \E a \in {extractors[call.i].actions[k]},
               m \in {search(extractors[call.i].r, call.txn.payee)} :
                TemplateOk(m.re, a.v) =>
                    \E expanded \in {expandItems(m, a.v)}, result \in {apply(a, m)} :
                        \E transformed \in
                               {transform(a.transformer, strip(expanded))} :
                            /\ result.ok
                            /\ Stripped(expanded, strip(expanded))
                            /\ a.transformer = "lower" =>
                                  transformed = lower(strip(expanded))
                            /\ a.transformer = identity =>
                                  transformed = strip(expanded)
                            /\ result.v =
                                  IF lower(transformed) \in DOMAIN a.translation
                                  THEN a.translation[lower(transformed)]
                                  ELSE transformed
                            /\ (a.transformer = identity
                                   /\ DOMAIN a.translation = {}) =>
                                  result.v = strip(expanded)

\* C16 witness: a rule with a translation matched with an uppercase letter in
\* its group, and the call returned the tag the table has under the lowercase
\* letter, a tag the transaction did not have
C16_Witness ==
    /\ Done /\ Looped
    /\ \E k \in 1..Len(call.trace) :
          /\ call.trace[k].matched /\ call.trace[k].ok
          /\ \E j \in 1..Len(extractors[k].actions) :
                /\ extractors[k].actions[j].kind = "Tag"
                /\ \E m \in {search(extractors[k].r, call.trace[k].searched)} :
                      /\ group(m, 1) # lower(group(m, 1))
                      /\ lower(group(m, 1)) \in DOMAIN extractors[k].actions[j].translation
                      /\ apply(extractors[k].actions[j], m).v \in call.txn.tags
                      /\ apply(extractors[k].actions[j], m).v \notin entry.txn.tags

\* C17: a Payee action of a rule that matches gives the payee made of the
\* searched text before the region the search matched, the action's template
\* expanded with that match, and the searched text after the region, with
\* leading and trailing whitespace removed and nothing else changed.
C17_PayeeRewritesMatchedRegion ==
    AtMatch =>
        \A k \in ActionsOfKind("Payee") :
            \E a \in {extractors[call.i].actions[k]},
               m \in {search(extractors[call.i].r, call.txn.payee)},
               pre \in {Before(k)} :
                (pre.ok /\ TemplateOk(m.re, a.v)) =>
                    \E r \in {PayeeExecute(a, m, pre.txn, pre.heap)} :
                        /\ r.ok
                        /\ r.txn.payee =
                              strip(SubSeq(m.string, 1, m.start - 1)
                                    \o expandItems(m, a.v)
                                    \o SubSeq(m.string, m.end + 1, Len(m.string)))

\* the call of the current entry made in a program that has made no call
\* before: the same transaction, on a heap whose EMPTY_META is empty
Afresh ==
    IF entry.txn.meta = EMPTY_META
    THEN TxnPayeeCleanup(entry.txn, entry.extractorsIsNone,
                         entry.preserveOriginalIn, entry.extractors, <<<<>>>>)
    ELSE TxnPayeeCleanup([entry.txn EXCEPT !.meta = 2], entry.extractorsIsNone,
                         entry.preserveOriginalIn, entry.extractors,
                         <<<<>>, entry.heap[entry.txn.meta]>>)

\* C18: a call on a transaction built by Tx returns the payee, tags and
\* metadata that the same call returns in a program that has made no earlier
\* call; a transaction built without metadata and returned with metadata has
\* only keys this call wrote.
C18_NoLeakBetweenCalls ==
    (Done /\ entry.from = "Tx") =>
        \E fresh \in {Afresh} :
            /\ fresh.call.pc = "done"
            /\ call.txn.payee = fresh.call.txn.payee
            /\ call.txn.tags = fresh.call.txn.tags
            /\ DictEq(OutMeta, fresh.heap[fresh.call.txn.meta])

\* value is old, or old followed by ", " and more
Extends(value, old) ==
    \/ value = old
    \/ /\ Len(value) > Len(old) + 2
       /\ SubSeq(value, 1, Len(old) + 2) = old \o <<",", " ">>

\* C19: a returned transaction has the date of the one passed in, all its
\* tags, and every metadata key it had, each with the value it had or with
\* that value extended by ", " and more; the key named by a non-empty
\* preserveOriginalIn is the one exception.
C19_NothingRemoved ==
    Done =>
        /\ call.txn.date = entry.txn.date
        /\ entry.txn.tags \subseteq call.txn.tags
        /\ \A key \in Keys(InMeta) :
              (Truthy(entry.preserveOriginalIn) /\ key = entry.preserveOriginalIn.key)
              \/ /\ key \in Keys(OutMeta)
                 /\ Extends(Get(OutMeta, key), Get(InMeta, key))

\* C19 witness: a call on a transaction with tags and two metadata keys
\* returned the tags, a longer value under one key and the other key as it was
C19_Witness ==
    /\ Done /\ Looped
    /\ entry.txn.tags # {}
    /\ KeyP \in Keys(InMeta) /\ KeyId \in Keys(InMeta)
    /\ Get(OutMeta, KeyId) # Get(InMeta, KeyId)
    /\ Extends(Get(OutMeta, KeyId), Get(InMeta, KeyId))
    /\ Get(OutMeta, KeyP) = Get(InMeta, KeyP)
    /\ entry.txn.tags \subseteq call.txn.tags

\* extractor e has two actions, a Payee action and a Tag or Meta action
OneOfEach(e) ==
    /\ Len(e.actions) = 2
    /\ \E k \in 1..2 : e.actions[k].kind = "Payee"
    /\ \E k \in 1..2 : e.actions[k].kind \in {"Tag", "Meta"}

\* the list exs with the two actions of its k-th extractor in the other order
Swapped(exs, k) ==
    [exs EXCEPT ![k].actions = <<exs[k].actions[2], exs[k].actions[1]>>]

\* C20: for every extractor of the list that has one Payee action and one Tag
\* or Meta action, the same call with the two actions in the other order
\* returns too, with the same payee, tags and metadata.
C20_ActionOrderWithinExtractor ==
    (Done /\ Looped) =>
        \A k \in 1..Len(entry.extractors) :
            OneOfEach(entry.extractors[k]) =>
                \E other \in {Rerun(Swapped(entry.extractors, k),
                                    entry.preserveOriginalIn)} :
                    /\ other.call.pc = "done"
                    /\ other.call.txn.payee = call.txn.payee
                    /\ other.call.txn.tags = call.txn.tags
                    /\ other.heap[other.call.txn.meta] = OutMeta

\* C20 witness: an extractor with a Meta action and a Payee action matched,
\* wrote its key and rewrote the payee so that its pattern matches no more
C20_Witness ==
    /\ Done /\ Looped
    /\ \E k \in 1..Len(call.trace) :
          /\ OneOfEach(extractors[k])
          /\ call.trace[k].matched /\ call.trace[k].ran = 2
          /\ call.trace[k].payee # call.trace[k].searched
          /\ ~search(extractors[k].r, call.trace[k].payee).ok
          /\ MetaKeysOf(extractors[k]) # {}
          /\ MetaKeysOf(extractors[k]) \subseteq Keys(OutMeta)

====
